---- MODULE Spec2Model ----
(* Model of src/src/lib.rs (crate exec-rs): CommandExec::exec, exec_piped,   *)
(* run_piped, run_single and check_output, together with the operating       *)
(* system processes the calls create.  One behaviour is one call of exec or  *)
(* exec_piped; the processes are the environment: each spawn may fail, each  *)
(* spawned process terminates (or not) with an exit status and with bytes    *)
(* written to its standard output and standard error.                        *)
EXTENDS Integers, Sequences, FiniteSets, TLC

VARIABLES
    call,       \* the call made on the Exec trait: exec(..) or exec_piped(..)
    pc,         \* position of the caller's thread inside the call
    commands,   \* run_piped's parameter `commands`
    idx,        \* number of elements the `for` loop of run_piped has consumed
    child,      \* run_piped's local `child: Option<std::process::Child>`
    procs,      \* the processes spawned so far, in spawn order
    pipes,      \* per spawned process: where the read end of its stdout pipe is
    dropped,    \* pids whose Child handle was dropped without a wait
    oplog,      \* the spawn and wait operations issued, in order
    output,     \* run_piped's first `output`: Option<std::process::Output>
    bytes,      \* run_piped's second `output`: the Vec<u8> check_output returned
    result      \* the Result<String, ExecError> returned to the caller

vars == <<call, pc, commands, idx, child, procs, pipes, dropped, oplog,
          output, bytes, result>>

----------------------------------------------------------------------------
(* Bounds of the model.                                                      *)

MaxStages == 2      \* longest pipeline handed to exec_piped
MaxArgs == 2        \* longest argument list of a stage

----------------------------------------------------------------------------
(* Inputs.                                                                   *)

NoContext == [kind |-> "None", user |-> "", host |-> "", config |-> <<>>]

LocalContext(user) ==
    [kind |-> "Local", user |-> user, host |-> "", config |-> <<>>]

\* config: Option<String> is <<>> for None and <<c>> for Some(c)
RemoteContext(host, config) ==
    [kind |-> "Remote", user |-> "", host |-> host, config |-> config]

Context ==
    {NoContext, LocalContext("alice"),
     RemoteContext("web1", <<>>), RemoteContext("web1", <<"ssh.cfg">>)}

RECURSIVE SeqsUpTo(_, _)
SeqsUpTo(S, n) ==
    IF n = 0 THEN {<<>>}
    ELSE LET shorter == SeqsUpTo(S, n - 1)
         IN  shorter \cup {Append(s, x) : s \in shorter, x \in S}

ArgLists == SeqsUpTo({"-l", "name"}, MaxArgs)

Stage(command, args, context) ==
    [command |-> command, args |-> args, context |-> context]

\* every (command, args, context) triple of the model
Stages == {Stage("grep", a, c) : a \in ArgLists, c \in Context}

\* the stages of the multi-stage pipelines: one per context shape
PipedStages ==
    {Stage("cat", <<"Cargo.toml">>, LocalContext("alice")),
     Stage("grep", <<"name">>, NoContext),
     Stage("wc", <<"-l", "-c">>, RemoteContext("web1", <<"ssh.cfg">>))}

Pipelines == SeqsUpTo(PipedStages, MaxStages) \cup {<<s>> : s \in Stages}

\* byte strings a process writes to standard output: "hi", U+00E9 in two
\* bytes, a lead byte followed by a non-continuation byte; and to standard
\* error: "err", a byte that never occurs in UTF-8
StdoutSamples == {<<104, 105>>, <<195, 169>>, <<195, 40>>}
StderrSamples == {<<101, 114, 114>>, <<255>>}
ExitCodes == {0, 2}

----------------------------------------------------------------------------
(* Values.                                                                   *)

Running == [state |-> "running", code |-> 0]
Exited(code) == [state |-> "exited", code |-> code]
Signaled == [state |-> "signaled", code |-> 0]

NoChild == [some |-> FALSE, pid |-> 0, stdout |-> 0, stderr |-> 0]
NoOutput == [some |-> FALSE, status |-> Running, stdout |-> <<>>, stderr |-> <<>>]

Pending == [tag |-> "Pending", code |-> 0, text |-> <<>>]
Ok(text) == [tag |-> "Ok", code |-> 0, text |-> text]
Err(tag) == [tag |-> tag, code |-> 0, text |-> <<>>]
TerminationWithError(code, text) ==
    [tag |-> "TerminationWithError", code |-> code, text |-> text]
TerminationWithErrorCode(code) ==
    [tag |-> "TerminationWithErrorCode", code |-> code, text |-> <<>>]

----------------------------------------------------------------------------
(* String::from_utf8: the bytes are validated as UTF-8 and, when valid, are  *)
(* the text; the text is given here by its sequence of code points.          *)

IsCont(b) == b >= 128 /\ b <= 191

\* length of the well-formed UTF-8 sequence that starts b, 0 when ill-formed
SeqLen(b) ==
    LET n == Len(b)
        x == b[1]
    IN  IF x < 128 THEN 1
        ELSE IF x >= 194 /\ x <= 223
             THEN IF n >= 2 /\ IsCont(b[2]) THEN 2 ELSE 0
        ELSE IF x >= 224 /\ x <= 239
             THEN IF /\ n >= 3
                     /\ IsCont(b[2])
                     /\ IsCont(b[3])
                     /\ (x = 224 => b[2] >= 160)
                     /\ (x = 237 => b[2] <= 159)
                  THEN 3 ELSE 0
        ELSE IF x >= 240 /\ x <= 244
             THEN IF /\ n >= 4
                     /\ IsCont(b[2])
                     /\ IsCont(b[3])
                     /\ IsCont(b[4])
                     /\ (x = 240 => b[2] >= 144)
                     /\ (x = 244 => b[2] <= 143)
                  THEN 4 ELSE 0
        ELSE 0

CodePoint(b, k) ==
    IF k = 1 THEN b[1]
    ELSE IF k = 2 THEN (b[1] - 192) * 64 + (b[2] - 128)
    ELSE IF k = 3 THEN (b[1] - 224) * 4096 + (b[2] - 128) * 64 + (b[3] - 128)
    ELSE (b[1] - 240) * 262144 + (b[2] - 128) * 4096
         + (b[3] - 128) * 64 + (b[4] - 128)

RECURSIVE ValidUtf8(_)
ValidUtf8(b) ==
    IF b = <<>> THEN TRUE
    ELSE LET k == SeqLen(b)
         IN  k > 0 /\ ValidUtf8(SubSeq(b, k + 1, Len(b)))

RECURSIVE Chars(_)
Chars(b) ==
    IF b = <<>> THEN <<>>
    ELSE LET k == SeqLen(b)
         IN  <<CodePoint(b, k)>> \o Chars(SubSeq(b, k + 1, Len(b)))

\* from_utf8 replaced by a lossy conversion: U+FFFD for ill-formed input
from_utf8_Lossy(v) ==
    [ok |-> TRUE, text |-> IF ValidUtf8(v) THEN Chars(v) ELSE <<65533>>]

from_utf8(v) ==
    IF ValidUtf8(v) THEN [ok |-> TRUE, text |-> Chars(v)]
    ELSE [ok |-> FALSE, text |-> <<>>]

----------------------------------------------------------------------------
(* run_single, first part: the std::process::Command built for a stage.      *)

\* com with the sudo payload's arguments placed before the command
com_ArgsFirst(command, args, context) ==
    IF context.kind = "Local"
    THEN [program |-> "sudo",
          argv |-> <<"-nu", context.user, "--">> \o args \o <<command>>]
    ELSE IF context.kind = "Remote"
    THEN [program |-> "ssh",
          argv |-> (IF context.config # <<>>
                    THEN <<"-F", context.config[1]>> ELSE <<>>)
                   \o <<context.host, command>> \o args]
    ELSE [program |-> command, argv |-> args]

\* com with the ssh configuration file left out
com_DropsConfig(command, args, context) ==
    IF context.kind = "Local"
    THEN [program |-> "sudo",
          argv |-> <<"-nu", context.user, "--", command>> \o args]
    ELSE IF context.kind = "Remote"
    THEN [program |-> "ssh", argv |-> <<context.host, command>> \o args]
    ELSE [program |-> command, argv |-> args]

\* com with the command repeated as the first argument of a direct stage
com_DirectPrefixed(command, args, context) ==
    IF context.kind = "Local"
    THEN [program |-> "sudo",
          argv |-> <<"-nu", context.user, "--", command>> \o args]
    ELSE IF context.kind = "Remote"
    THEN [program |-> "ssh",
          argv |-> (IF context.config # <<>>
                    THEN <<"-F", context.config[1]>> ELSE <<>>)
                   \o <<context.host, command>> \o args]
    ELSE [program |-> command, argv |-> <<command>> \o args]

com(command, args, context) ==
    IF context.kind = "Local"
    THEN [program |-> "sudo",
          argv |-> <<"-nu", context.user, "--", command>> \o args]
    ELSE IF context.kind = "Remote"
    THEN [program |-> "ssh",
          argv |-> (IF context.config # <<>>
                    THEN <<"-F", context.config[1]>> ELSE <<>>)
                   \o <<context.host, command>> \o args]
    ELSE [program |-> command, argv |-> args]

\* Process with the context honoured for the first stage only
Process_ByPosition(stage, stdin) ==
    LET c == com(stage.command, stage.args,
                 IF stdin = 0 THEN stage.context ELSE NoContext)
    IN  [program |-> c.program, argv |-> c.argv,
         stdin |-> stdin, stdout |-> "piped", stderr |-> "inherit",
         status |-> Running, out |-> <<>>, err |-> <<>>]

\* the process Command::spawn creates: stdin is the taken pipe of the
\* predecessor (0: inherited), stdout is a fresh pipe, stderr is not
\* configured and therefore inherited from the caller's process
Process(stage, stdin) ==
    LET c == com(stage.command, stage.args, stage.context)
    IN  [program |-> c.program, argv |-> c.argv,
         stdin |-> stdin, stdout |-> "piped", stderr |-> "inherit",
         status |-> Running, out |-> <<>>, err |-> <<>>]

\* Child with the handle of the first stage kept as the current one
Child_KeepFirst(pid, p) ==
    IF child.some THEN child
    ELSE [some |-> TRUE, pid |-> pid, stdout |-> pid, stderr |-> 0]

\* Child of a process spawned without a pipe on its standard output
Child_NoStdout(pid, p) ==
    [some |-> TRUE, pid |-> pid, stdout |-> 0, stderr |-> 0]

\* the Child handle spawn returns for process pid: a handle field is Some
\* exactly for the streams configured as piped
Child(pid, p) ==
    [some |-> TRUE, pid |-> pid,
     stdout |-> IF p.stdout = "piped" THEN pid ELSE 0,
     stderr |-> IF p.stderr = "piped" THEN pid ELSE 0]

SpawnOp(stage, ok) == [op |-> "spawn", stage |-> stage, ok |-> ok]
WaitOp(pid) == [op |-> "wait", stage |-> pid, ok |-> TRUE]

InHandle(pid) == [at |-> "handle", of |-> pid]
\* InStdin with the read end left in the predecessor's handle
InStdin_NotTaken(pid) == [at |-> "handle", of |-> pid - 1]

InStdin(pid) == [at |-> "stdin", of |-> pid]
InCollector == [at |-> "collector", of |-> 0]
Closed == [at |-> "closed", of |-> 0]

----------------------------------------------------------------------------
(* check_output                                                              *)

\* check_output with a missing exit code read as code 0
check_output_SignalAsZero(o) ==
    IF o.status.state = "exited" /\ o.status.code # 0
    THEN LET s == from_utf8(o.stderr)
         IN  IF s.ok
             THEN [ok |-> FALSE, bytes |-> <<>>,
                   err |-> TerminationWithError(o.status.code, s.text)]
             ELSE [ok |-> FALSE, bytes |-> <<>>,
                   err |-> TerminationWithErrorCode(o.status.code)]
    ELSE [ok |-> TRUE, bytes |-> o.stdout, err |-> Pending]

check_output(o) ==
    IF o.status.state = "exited"
    THEN IF o.status.code = 0
         THEN [ok |-> TRUE, bytes |-> o.stdout, err |-> Pending]
         ELSE LET s == from_utf8(o.stderr)
              IN  IF s.ok
                  THEN [ok |-> FALSE, bytes |-> <<>>,
                        err |-> TerminationWithError(o.status.code, s.text)]
                  ELSE [ok |-> FALSE, bytes |-> <<>>,
                        err |-> TerminationWithErrorCode(o.status.code)]
    ELSE [ok |-> FALSE, bytes |-> <<>>, err |-> Err("TerminationBySignal")]

----------------------------------------------------------------------------
(* The call.                                                                 *)

ExecCall(s) ==
    [fn |-> "exec", command |-> s.command, args |-> s.args,
     context |-> s.context, commands |-> <<>>]

ExecPipedCall(cs) ==
    [fn |-> "exec_piped", command |-> "", args |-> <<>>,
     context |-> NoContext, commands |-> cs]

Calls ==
    {ExecCall(s) : s \in Stages \cup PipedStages}
        \cup {ExecPipedCall(cs) : cs \in Pipelines}

Init ==
    /\ call \in Calls
    /\ pc = "call"
    /\ commands = <<>>
    /\ idx = 0
    /\ child = NoChild
    /\ procs = <<>>
    /\ pipes = <<>>
    /\ dropped = {}
    /\ oplog = <<>>
    /\ output = NoOutput
    /\ bytes = <<>>
    /\ result = Pending

\* run_piped is entered with the given slice
run_piped(cs) ==
    /\ commands' = cs
    /\ pc' = "loop"
    /\ UNCHANGED <<call, idx, child, procs, pipes, dropped, oplog, output,
                   bytes, result>>

\* exec with the context left out of the single stage
exec_DropsContext ==
    /\ pc = "call"
    /\ call.fn = "exec"
    /\ run_piped(<<Stage(call.command, call.args, NoContext)>>)

exec ==
    /\ pc = "call"
    /\ call.fn = "exec"
    /\ run_piped(<<Stage(call.command, call.args, call.context)>>)

exec_piped ==
    /\ pc = "call"
    /\ call.fn = "exec_piped"
    /\ run_piped(call.commands)

\* Return with the error recorded and the call carrying on
Return_CarriesOn(r) ==
    /\ result' = r
    /\ pc' = pc

\* the call returns r; every local still alive is dropped
Return(r) ==
    /\ result' = r
    /\ pc' = "done"

\* run_single with a failed spawn skipped instead of returned
run_single_IgnoreFailure(stage, pre, ok) ==
    LET pid == Len(procs) + 1
        p == Process(stage, IF pre.some THEN pre.stdout ELSE 0)
        taken == IF pre.some
                 THEN [pipes EXCEPT ![pre.stdout] =
                           IF ok THEN InStdin(pid) ELSE Closed]
                 ELSE pipes
    IN  /\ oplog' = Append(oplog, SpawnOp(idx + 1, ok))
        /\ dropped' = IF pre.some THEN dropped \cup {pre.pid} ELSE dropped
        /\ procs' = IF ok THEN Append(procs, p) ELSE procs
        /\ pipes' = IF ok THEN Append(taken, InHandle(pid)) ELSE taken
        /\ child' = IF ok THEN Child(pid, p) ELSE NoChild
        /\ UNCHANGED <<pc, result>>

\* run_single waiting for the predecessor before it spawns the stage
run_single_WaitsPredecessor(stage, pre, ok) ==
    LET pid == Len(procs) + 1
        p == Process(stage, IF pre.some THEN pre.stdout ELSE 0)
        taken == IF pre.some
                 THEN [pipes EXCEPT ![pre.stdout] =
                           IF ok THEN InStdin(pid) ELSE Closed]
                 ELSE pipes
    IN  /\ oplog' = (IF pre.some THEN Append(oplog, WaitOp(pre.pid)) ELSE oplog)
                        \o <<SpawnOp(idx + 1, ok)>>
        /\ dropped' = dropped
        /\ IF ok
           THEN /\ procs' = Append(procs, p)
                /\ pipes' = Append(taken, InHandle(pid))
                /\ child' = Child(pid, p)
                /\ UNCHANGED <<pc, result>>
           ELSE /\ Return(Err("Io"))
                /\ pipes' = taken
                /\ child' = NoChild
                /\ UNCHANGED procs

\* run_single killing the predecessor when the spawn fails
run_single_KillsOnFailure(stage, pre, ok) ==
    LET pid == Len(procs) + 1
        p == Process(stage, IF pre.some THEN pre.stdout ELSE 0)
        taken == IF pre.some
                 THEN [pipes EXCEPT ![pre.stdout] =
                           IF ok THEN InStdin(pid) ELSE Closed]
                 ELSE pipes
    IN  /\ oplog' = Append(oplog, SpawnOp(idx + 1, ok))
        /\ dropped' = IF pre.some THEN dropped \cup {pre.pid} ELSE dropped
        /\ IF ok
           THEN /\ procs' = Append(procs, p)
                /\ pipes' = Append(taken, InHandle(pid))
                /\ child' = Child(pid, p)
                /\ UNCHANGED <<pc, result>>
           ELSE /\ Return(Err("Io"))
                /\ pipes' = taken
                /\ child' = NoChild
                /\ procs' = IF pre.some /\ procs[pre.pid].status = Running
                            THEN [procs EXCEPT ![pre.pid].status = Signaled]
                            ELSE procs

\* run_single(command, args, context, pre): ok is whether Command::spawn
\* succeeds.  pre = NoChild stands for None.
run_single(stage, pre, ok) ==
    IF pre.some /\ pre.stdout = 0
    THEN \* child.stdout.take() is None
         /\ Return(Err("Chaining"))
         /\ child' = NoChild
         /\ dropped' = dropped \cup {pre.pid}
         /\ UNCHANGED <<procs, pipes, oplog>>
    ELSE LET pid == Len(procs) + 1
             p == Process(stage, IF pre.some THEN pre.stdout ELSE 0)
             taken == IF pre.some
                      THEN [pipes EXCEPT ![pre.stdout] =
                                IF ok THEN InStdin(pid) ELSE Closed]
                      ELSE pipes
         IN  /\ oplog' = Append(oplog, SpawnOp(idx + 1, ok))
             /\ dropped' = IF pre.some THEN dropped \cup {pre.pid} ELSE dropped
             /\ IF ok
                THEN /\ procs' = Append(procs, p)
                     /\ pipes' = Append(taken, InHandle(pid))
                     /\ child' = Child(pid, p)
                     /\ UNCHANGED <<pc, result>>
                ELSE /\ Return(Err("Io"))
                     /\ pipes' = taken
                     /\ child' = NoChild
                     /\ UNCHANGED procs

\* run_piped, loop body, arm `None`
SpawnFirst ==
    /\ pc = "loop"
    /\ idx < Len(commands)
    /\ ~child.some
    /\ \E ok \in BOOLEAN : run_single(commands[idx + 1], NoChild, ok)
    /\ idx' = idx + 1
    /\ UNCHANGED <<call, commands, output, bytes>>

\* run_piped, loop body, arm `Some(mut c)`
SpawnNext ==
    /\ pc = "loop"
    /\ idx < Len(commands)
    /\ child.some
    /\ \E ok \in BOOLEAN : run_single(commands[idx + 1], child, ok)
    /\ idx' = idx + 1
    /\ UNCHANGED <<call, commands, output, bytes>>

\* ok_or with the empty pipeline succeeding with empty text
ok_or_EmptySucceeds ==
    /\ pc = "loop"
    /\ idx = Len(commands)
    /\ IF child.some
       THEN pc' = "wait" /\ UNCHANGED result
       ELSE Return(Ok(<<>>))
    /\ UNCHANGED <<call, commands, idx, child, procs, pipes, dropped, oplog,
                   output, bytes>>

\* child.ok_or(ExecError::Chaining)?
ok_or ==
    /\ pc = "loop"
    /\ idx = Len(commands)
    /\ IF child.some
       THEN pc' = "wait" /\ UNCHANGED result
       ELSE Return(Err("Chaining"))
    /\ UNCHANGED <<call, commands, idx, child, procs, pipes, dropped, oplog,
                   output, bytes>>

\* wait_with_output returning whether or not the process has terminated
wait_with_output_NoBlock ==
    /\ pc = "wait"
    /\ oplog' = Append(oplog, WaitOp(child.pid))
    /\ pipes' = IF child.stdout # 0
                THEN [pipes EXCEPT ![child.stdout] = InCollector]
                ELSE pipes
    /\ child' = NoChild
    /\ output' = [some |-> TRUE,
                  status |-> procs[child.pid].status,
                  stdout |-> procs[child.pid].out,
                  stderr |-> <<>>]
    /\ pc' = "check"
    /\ UNCHANGED <<call, commands, idx, procs, dropped, bytes, result>>

\* wait_with_output reporting the status of the first stage that failed
wait_with_output_PipeFail ==
    /\ pc = "wait"
    /\ procs[child.pid].status.state # "running"
    /\ oplog' = Append(oplog, WaitOp(child.pid))
    /\ pipes' = IF child.stdout # 0
                THEN [pipes EXCEPT ![child.stdout] = InCollector]
                ELSE pipes
    /\ child' = NoChild
    /\ LET failed == {k \in 1..child.pid :
                         procs[k].status \notin {Running, Exited(0)}}
           first == IF failed = {} THEN child.pid
                    ELSE CHOOSE k \in failed : \A j \in failed : k <= j
       IN  output' = [some |-> TRUE,
                      status |-> procs[first].status,
                      stdout |-> procs[child.pid].out,
                      stderr |-> <<>>]
    /\ pc' = "check"
    /\ UNCHANGED <<call, commands, idx, procs, dropped, bytes, result>>

\* Child::wait_with_output: reads the streams the handle holds up to their
\* end, then waits for the process; ok is whether the wait succeeds
wait_with_output ==
    /\ pc = "wait"
    /\ procs[child.pid].status.state # "running"
    /\ oplog' = Append(oplog, WaitOp(child.pid))
    /\ pipes' = IF child.stdout # 0
                THEN [pipes EXCEPT ![child.stdout] = InCollector]
                ELSE pipes
    /\ child' = NoChild
    /\ \E ok \in BOOLEAN :
          IF ok
          THEN /\ output' =
                     [some |-> TRUE,
                      status |-> procs[child.pid].status,
                      stdout |-> IF child.stdout # 0
                                 THEN procs[child.stdout].out ELSE <<>>,
                      stderr |-> IF child.stderr # 0
                                 THEN procs[child.stderr].err ELSE <<>>]
               /\ pc' = "check"
               /\ UNCHANGED result
          ELSE /\ Return(Err("Io"))
               /\ UNCHANGED output
    /\ UNCHANGED <<call, commands, idx, procs, dropped, bytes>>

\* let output = CommandExec::check_output(&output)?;
CheckOutput ==
    /\ pc = "check"
    /\ LET r == check_output(output)
       IN  IF r.ok
           THEN bytes' = r.bytes /\ pc' = "decode" /\ UNCHANGED result
           ELSE Return(r.err) /\ UNCHANGED bytes
    /\ UNCHANGED <<call, commands, idx, child, procs, pipes, dropped, oplog,
                   output>>

\* Ok(String::from_utf8(output)?)
Decode ==
    /\ pc = "decode"
    /\ LET s == from_utf8(bytes)
       IN  Return(IF s.ok THEN Ok(s.text) ELSE Err("Utf8"))
    /\ UNCHANGED <<call, commands, idx, child, procs, pipes, dropped, oplog,
                   output, bytes>>

\* the environment: a spawned process terminates, having written out to its
\* standard output and err to its standard error
ProcExit ==
    /\ \E pid \in 1..Len(procs) :
          /\ procs[pid].status.state = "running"
          /\ \E st \in {Exited(c) : c \in ExitCodes} \cup {Signaled},
                o \in StdoutSamples, e \in StderrSamples :
                procs' = [procs EXCEPT ![pid].status = st,
                                       ![pid].out = o,
                                       ![pid].err = e]
    /\ UNCHANGED <<call, pc, commands, idx, child, pipes, dropped, oplog,
                   output, bytes, result>>

Next ==
    \/ exec
    \/ exec_piped
    \/ SpawnFirst
    \/ SpawnNext
    \/ ok_or
    \/ wait_with_output
    \/ CheckOutput
    \/ Decode
    \/ ProcExit

\* the steps of the caller's thread
ExecutorNext ==
    \/ exec
    \/ exec_piped
    \/ SpawnFirst
    \/ SpawnNext
    \/ ok_or
    \/ wait_with_output
    \/ CheckOutput
    \/ Decode

Spec == Init /\ [][Next]_vars

\* the caller's thread keeps running: it takes its next step whenever it has
\* one; nothing makes a spawned process terminate
FairSpec == Init /\ [][Next]_vars /\ WF_vars(ExecutorNext)

----------------------------------------------------------------------------
(* Properties.                                                               *)

Done == pc = "done"

\* every stage of a non-empty pipeline was spawned, the wait on the final
\* stage returned its Output, and the call has returned
Collected ==
    /\ Done
    /\ commands # <<>>
    /\ Len(procs) = Len(commands)
    /\ output.some

FinalProc == procs[Len(procs)]

Ops(kind) == {i \in 1..Len(oplog) : oplog[i].op = kind}
FailedSpawns == {i \in Ops("spawn") : ~oplog[i].ok}

\* C1: when every stage of a non-empty pipeline spawned and the final stage
\* is reported to have exited with code 0 having written valid UTF-8, the
\* call returns Ok with the text of exactly the bytes the final stage wrote
\* to its standard output; the read end of the stdout pipe of stage i is held
\* by the handle of stage i, is the stdin of stage i+1, or is closed, and the
\* collector reads the pipe of the last stage only.
C1_FinalStdoutReturned ==
    /\ (Collected /\ FinalProc.status = Exited(0) /\ ValidUtf8(FinalProc.out))
          => result = Ok(Chars(FinalProc.out))
    /\ \A i \in 1..Len(procs) :
          /\ procs[i].stdin = i - 1
          /\ pipes[i] \in {InHandle(i), InStdin(i + 1), InCollector, Closed}
          /\ pipes[i] = InStdin(i + 1) => i < Len(procs)
          /\ pipes[i] = InCollector => i = Len(commands)

C1_Witness ==
    /\ Collected
    /\ call.fn = "exec_piped"
    /\ Len(commands) = 2
    /\ FinalProc.status = Exited(0)
    /\ procs[1].status.state = "exited"
    /\ procs[1].out = <<104, 105>>
    /\ FinalProc.out = <<195, 169>>
    /\ result = Ok(<<233>>)
    /\ pipes = <<InStdin(2), InCollector>>

\* C2: exec_piped on the empty stage sequence spawns nothing, waits on
\* nothing and returns the Chaining error.
C2_EmptyIsChaining ==
    (call.fn = "exec_piped" /\ call.commands = <<>>)
        => /\ procs = <<>>
           /\ oplog = <<>>
           /\ ~output.some
           /\ Done => result = Err("Chaining")

C2_Witness ==
    /\ Done
    /\ call.fn = "exec_piped"
    /\ call.commands = <<>>
    /\ result = Err("Chaining")
    /\ oplog = <<>>

\* C3: once the spawn of stage k has failed, the call has returned the Io
\* error, the failed spawn is the last operation issued (no later stage is
\* spawned), exactly the k-1 earlier stages were spawned, no wait was issued
\* and no Output was collected.
C3_SpawnFailureAborts ==
    \A i \in FailedSpawns :
        /\ Done
        /\ result = Err("Io")
        /\ i = Len(oplog)
        /\ oplog[i].stage = i
        /\ Len(procs) = i - 1
        /\ Ops("wait") = {}
        /\ ~output.some
        /\ bytes = <<>>

C3_Witness ==
    /\ Done
    /\ Len(commands) = 2
    /\ oplog = <<SpawnOp(1, TRUE), SpawnOp(2, FALSE)>>
    /\ procs[1].status.state = "exited"
    /\ result = Err("Io")

\* C4: when the final stage is reported to have exited with a non-zero code,
\* the error is TerminationWithError with the code and the text of what the
\* stage wrote to standard error if that is valid UTF-8, and
\* TerminationWithErrorCode with the code otherwise.
C4_NonZeroCarriesStderr ==
    (Collected /\ FinalProc.status.state = "exited" /\ FinalProc.status.code # 0)
        => result = IF ValidUtf8(FinalProc.err)
                    THEN TerminationWithError(FinalProc.status.code,
                                              Chars(FinalProc.err))
                    ELSE TerminationWithErrorCode(FinalProc.status.code)

\* C5: the Output collected from the final stage holds what the stage wrote
\* to standard error apart from what it wrote to standard output: after a
\* non-zero exit the message of the error is the text written to standard
\* error, and after success the returned text is the text of standard output.
C5_StderrCaptured ==
    Collected
        => /\ output.stderr = FinalProc.err
           /\ output.stdout = FinalProc.out
           /\ result.tag = "TerminationWithError"
                 => result.text = Chars(FinalProc.err)
           /\ result.tag = "Ok" => result.text = Chars(FinalProc.out)

\* C6: when the final stage is reported as terminated by a signal, the call
\* returns TerminationBySignal whatever the stage wrote.
C6_SignalIsTerminationBySignal ==
    (Collected /\ FinalProc.status = Signaled)
        => result = Err("TerminationBySignal")

C6_Witness ==
    /\ Collected
    /\ FinalProc.status = Signaled
    /\ FinalProc.out = <<104, 105>>
    /\ FinalProc.err = <<101, 114, 114>>
    /\ result = Err("TerminationBySignal")

\* C7: exit code 0 with ill-formed standard output gives the Utf8 error, and
\* an Ok result always carries the text of the whole well-formed output; with
\* a non-zero exit code or a signal the result is fixed by the status and the
\* collected standard error alone, whatever the standard-output bytes are.
C7_StatusBeforeDecoding ==
    Collected
        => /\ (FinalProc.status = Exited(0) /\ ~ValidUtf8(FinalProc.out))
                 => result = Err("Utf8")
           /\ result.tag = "Ok"
                 => /\ FinalProc.status = Exited(0)
                    /\ ValidUtf8(FinalProc.out)
                    /\ result.text = Chars(FinalProc.out)
           /\ (FinalProc.status.state = "exited" /\ FinalProc.status.code # 0)
                 => result = IF ValidUtf8(output.stderr)
                              THEN TerminationWithError(FinalProc.status.code,
                                                        Chars(output.stderr))
                              ELSE TerminationWithErrorCode(FinalProc.status.code)
           /\ FinalProc.status = Signaled
                 => result = Err("TerminationBySignal")

C7_Witness ==
    /\ Collected
    /\ FinalProc.status = Exited(0)
    /\ FinalProc.out = <<195, 40>>
    /\ result = Err("Utf8")

\* the result run_piped returns once every stage was spawned and the wait was
\* issued, as a function of what the wait returned
ResultOf(o) ==
    IF ~o.some THEN Err("Io")
    ELSE LET r == check_output(o)
         IN  IF ~r.ok THEN r.err
             ELSE IF ValidUtf8(r.bytes) THEN Ok(Chars(r.bytes)) ELSE Err("Utf8")

\* C8: exec(command, args, context) runs run_piped on the one-element
\* sequence <<(command, args, context)>>, as exec_piped does on the sequence
\* it is given; for a one-element sequence the operations issued and the
\* result are the same function of the stage and of what the process did,
\* whichever of the two was called.
C8_ExecIsPipedSingle ==
    /\ (call.fn = "exec" /\ pc # "call")
          => commands = <<Stage(call.command, call.args, call.context)>>
    /\ (call.fn = "exec_piped" /\ pc # "call") => commands = call.commands
    /\ (Done /\ Len(commands) = 1)
          => \/ /\ oplog = <<SpawnOp(1, FALSE)>>
                /\ procs = <<>>
                /\ result = Err("Io")
             \/ /\ oplog = <<SpawnOp(1, TRUE), WaitOp(1)>>
                /\ Len(procs) = 1
                /\ procs[1].program =
                      com(commands[1].command, commands[1].args,
                          commands[1].context).program
                /\ procs[1].argv =
                      com(commands[1].command, commands[1].args,
                          commands[1].context).argv
                /\ result = ResultOf(output)

C8_Witness ==
    /\ Done
    /\ call.fn = "exec"
    /\ call.context = RemoteContext("web1", <<"ssh.cfg">>)
    /\ call.args = <<"-l", "name">>
    /\ oplog = <<SpawnOp(1, TRUE), WaitOp(1)>>
    /\ procs[1].program = "ssh"
    /\ result = Ok(<<104, 105>>)

\* C9: the program and argument list of every spawned process are those
\* resolved from its own stage's (command, args, context), so two stages with
\* the same triple are spawned identically wherever they stand in the
\* pipeline and whatever the other stages are.
C9_ResolvedPerStage ==
    /\ \A k \in 1..Len(procs) :
          LET c == com(commands[k].command, commands[k].args,
                       commands[k].context)
          IN  procs[k].program = c.program /\ procs[k].argv = c.argv
    /\ \A j, k \in 1..Len(procs) :
          commands[j] = commands[k]
              => /\ procs[j].program = procs[k].program
                 /\ procs[j].argv = procs[k].argv

C9_Witness ==
    /\ Len(procs) = 2
    /\ commands[1].context = RemoteContext("web1", <<"ssh.cfg">>)
    /\ commands[2] = commands[1]
    /\ procs[2].program = "ssh"
    /\ procs[2].argv = procs[1].argv

\* C10: a stage with context Local{user} is spawned as sudo with the argument
\* list -nu, user, --, command followed by the stage's args in their order.
C10_LocalIsSudo ==
    \A k \in 1..Len(procs) :
        commands[k].context.kind = "Local"
            => /\ procs[k].program = "sudo"
               /\ Len(procs[k].argv) = 4 + Len(commands[k].args)
               /\ procs[k].argv[1] = "-nu"
               /\ procs[k].argv[2] = commands[k].context.user
               /\ procs[k].argv[3] = "--"
               /\ procs[k].argv[4] = commands[k].command
               /\ SubSeq(procs[k].argv, 5, Len(procs[k].argv))
                     = commands[k].args

C10_Witness ==
    /\ Len(procs) = 1
    /\ commands[1] = Stage("grep", <<"-l", "name">>, LocalContext("alice"))
    /\ procs[1].program = "sudo"
    /\ procs[1].argv = <<"-nu", "alice", "--", "grep", "-l", "name">>

\* C11: a stage with context Remote{host, config} is spawned as ssh; with a
\* config the argument list is -F, config, host, command followed by the
\* stage's args in their order, without one it is host, command followed by
\* the args.
C11_RemoteIsSsh ==
    \A k \in 1..Len(procs) :
        commands[k].context.kind = "Remote"
            => LET ctx == commands[k].context
                   n == IF ctx.config # <<>> THEN 2 ELSE 0
                   argv == procs[k].argv
               IN  /\ procs[k].program = "ssh"
                   /\ Len(argv) = n + 2 + Len(commands[k].args)
                   /\ ctx.config # <<>>
                         => argv[1] = "-F" /\ argv[2] = ctx.config[1]
                   /\ argv[n + 1] = ctx.host
                   /\ argv[n + 2] = commands[k].command
                   /\ SubSeq(argv, n + 3, Len(argv)) = commands[k].args

C11_Witness ==
    /\ Len(procs) = 1
    /\ commands[1] =
          Stage("grep", <<"-l", "name">>, RemoteContext("web1", <<"ssh.cfg">>))
    /\ procs[1].program = "ssh"
    /\ procs[1].argv = <<"-F", "ssh.cfg", "web1", "grep", "-l", "name">>

\* C12: a stage without context is spawned as the program command with the
\* argument list args, nothing added.
C12_DirectUnchanged ==
    \A k \in 1..Len(procs) :
        commands[k].context.kind = "None"
            => /\ procs[k].program = commands[k].command
               /\ procs[k].argv = commands[k].args

C12_Witness ==
    /\ Len(procs) = 1
    /\ commands[1] = Stage("grep", <<"name", "-l">>, NoContext)
    /\ procs[1].program = "grep"
    /\ procs[1].argv = <<"name", "-l">>

\* C13: the operations issued are the spawns of stages 1, 2, .. in that
\* order, each after the spawns before it succeeded, followed by at most one
\* wait; the wait is on the last stage and is issued only after every stage
\* of the pipeline was spawned.
C13_SpawnsThenOneWait ==
    \A i \in 1..Len(oplog) :
        /\ oplog[i].op = "spawn"
              => /\ oplog[i].stage = i
                 /\ \A j \in 1..(i - 1) : oplog[j].op = "spawn" /\ oplog[j].ok
        /\ oplog[i].op = "wait"
              => /\ i = Len(commands) + 1
                 /\ i = Len(oplog)
                 /\ oplog[i].stage = Len(commands)
                 /\ Len(procs) = Len(commands)
                 /\ \A j \in 1..(i - 1) : oplog[j].op = "spawn" /\ oplog[j].ok

C13_Witness ==
    /\ Done
    /\ Len(commands) = 2
    /\ oplog = <<SpawnOp(1, TRUE), SpawnOp(2, TRUE), WaitOp(2)>>
    /\ procs[1].status.state = "running"

\* who holds the read end of the stdout pipe of process i: the current Child
\* handle, a process that has it as standard input, the collector
Owners(i) ==
    (IF child.some /\ child.stdout = i THEN {<<"handle", child.pid>>} ELSE {})
        \cup {<<"stdin", k>> : k \in {j \in 1..Len(procs) : procs[j].stdin = i}}
        \cup (IF pipes[i].at = "collector" THEN {<<"collector", 0>>} ELSE {})

PipeOwnership ==
    \A i \in 1..Len(procs) :
        /\ Cardinality(Owners(i)) <= 1
        /\ pipes[i].at # "closed" => Cardinality(Owners(i)) = 1
        /\ pipes[i].at = "handle" <=> (child.some /\ child.stdout = i)
        /\ pipes[i].at = "handle" => child.pid = i
        /\ pipes[i].at = "stdin" <=> (\E k \in 1..Len(procs) : procs[k].stdin = i)
        /\ \A k \in 1..Len(procs) : procs[k].stdin = i => k = i + 1
        /\ pipes[i].at = "stdin" => pipes[i].of = i + 1
        /\ pipes[i].at = "collector" => i = Len(commands) /\ Ops("wait") # {}

\* a read end that has left its handle stays where it went
PipeMovedOnce ==
    \A i \in 1..Len(pipes) : pipes[i].at # "handle" => pipes'[i] = pipes[i]

\* C14: the read end of each stage's stdout pipe never has two holders and,
\* until it is closed, has exactly one: the handle of its stage, then the
\* stage after it as standard input (attached when that stage is spawned),
\* or, for the last stage only, the collector; once it has left the handle it
\* is never moved or read again.
C14_SingleOwnerPipes == []PipeOwnership /\ [][PipeMovedOnce]_vars

C14_Witness ==
    /\ Done
    /\ Len(procs) = 2
    /\ Owners(1) = {<<"stdin", 2>>}
    /\ Owners(2) = {<<"collector", 0>>}
    /\ result.tag = "Ok"

FailureAtPoint ==
    /\ Done <=> result # Pending
    /\ \A i, j \in 1..Len(oplog) :
          (oplog[i].op = oplog[j].op /\ oplog[i].stage = oplog[j].stage)
              => i = j
    /\ FailedSpawns # {}
          => Done /\ result = Err("Io") /\ FailedSpawns = {Len(oplog)}
    /\ (Ops("wait") # {} /\ ~output.some) => Done /\ result = Err("Io")
    /\ result.tag = "Chaining" => commands = <<>> /\ oplog = <<>>
    /\ result.tag = "Io"
          => /\ ~output.some
             /\ bytes = <<>>
             /\ oplog # <<>>
             /\ \/ oplog[Len(oplog)] = SpawnOp(Len(oplog), FALSE)
                \/ oplog[Len(oplog)] = WaitOp(Len(commands))
    /\ result.tag \in {"TerminationBySignal", "TerminationWithError",
                       "TerminationWithErrorCode"}
          => /\ output.some
             /\ output.status # Exited(0)
             /\ bytes = <<>>
    /\ result.tag = "Utf8"
          => output.some /\ output.status = Exited(0) /\ ~ValidUtf8(bytes)
    /\ result.tag = "Ok"
          => /\ FailedSpawns = {}
             /\ output.some
             /\ output.status = Exited(0)
             /\ ValidUtf8(bytes)
             /\ result = Ok(Chars(bytes))

\* once the call has returned, the executor does nothing more
ReturnedIsFinal ==
    Done => UNCHANGED <<call, pc, commands, idx, child, pipes, dropped, oplog,
                        output, bytes, result>>

\* C15: the call has returned exactly when it has a result; an error is
\* returned at the step that detected it (empty pipeline, failed spawn,
\* failed wait, signal, non-zero exit, ill-formed output), no spawn or wait
\* is issued twice, nothing is done after a failure, and an Ok result exists
\* only when no step failed.
C15_FailureEndsCall == []FailureAtPoint /\ [][ReturnedIsFinal]_vars

C15_Witness ==
    /\ Done
    /\ Len(commands) = 2
    /\ oplog = <<SpawnOp(1, TRUE), SpawnOp(2, TRUE), WaitOp(2)>>
    /\ ~output.some
    /\ result = Err("Io")

\* the caller's thread is in wait_with_output and the last stage still runs
WaitingOnRunning ==
    /\ pc = "wait"
    /\ procs[child.pid].status.state = "running"

\* the wait was issued, or the call returned with every stage spawned, only
\* with the last stage terminated
ReturnsAfterExit ==
    (Ops("wait") # {} \/ (Done /\ commands # <<>> /\ FailedSpawns = {}))
        => /\ Len(procs) = Len(commands)
           /\ FinalProc.status.state # "running"

\* while the last stage runs, the caller stays in the wait
BlockedWhileRunning == WaitingOnRunning => pc' = "wait"

\* C16: the call returns, after a wait, only once the last stage has
\* terminated; while the last stage runs the caller stays blocked in the
\* wait, with no timeout; and every call either returns or stays for ever in
\* the wait on a last stage that never terminates.
C16_ReturnsWhenLastStageExits ==
    /\ []ReturnsAfterExit
    /\ [][BlockedWhileRunning]_vars
    /\ (<>Done \/ <>[]WaitingOnRunning)

C16_Witness ==
    /\ WaitingOnRunning
    /\ Len(procs) = 2
    /\ procs[1].status.state = "exited"

\* C17 as stated: between two spawns the executor holds the handle of the
\* most recently spawned stage and no other; a dropped handle of stage i has
\* had its pipe taken and stage i+1 has been spawned; the handle waited on is
\* that of the last stage.
C17_DroppedAfterNextSpawned ==
    /\ pc = "loop"
          => /\ idx = 0 => child = NoChild
             /\ idx > 0 => child.some /\ child.pid = idx
    /\ \A i \in dropped : pipes[i].at # "handle" /\ Len(procs) >= i + 1
    /\ \A w \in Ops("wait") : oplog[w].stage = Len(commands)

\* C17, amended: as above, but a dropped handle of stage i has had its pipe
\* taken and either stage i+1 has been spawned or the spawn of stage i+1 has
\* failed and the call has returned the Io error.
C17_HandleRetention ==
    /\ pc = "loop"
          => /\ idx = Len(procs)
             /\ idx = 0 => child = NoChild
             /\ idx > 0 => child.some /\ child.pid = idx
             /\ dropped = 1..(idx - 1)
    /\ \A i \in dropped :
          /\ pipes[i].at # "handle"
          /\ \/ Len(procs) >= i + 1
             \/ /\ Done
                /\ result = Err("Io")
                /\ oplog[Len(oplog)] = SpawnOp(i + 1, FALSE)
    /\ \A w \in Ops("wait") :
          oplog[w].stage = Len(commands) /\ Len(commands) \notin dropped

C17_Witness ==
    /\ pc = "loop"
    /\ idx = 2
    /\ child.some
    /\ child.pid = 2
    /\ dropped = {1}
    /\ pipes[1].at = "stdin"

\* C18: the handle in child always still holds the read end of its stage's
\* stdout pipe, so the take in run_single never fails; the call returns the
\* Chaining error exactly when the stage sequence is empty.
C18_ChainingOnlyWhenEmpty ==
    /\ child.some
          => /\ child.stdout = child.pid
             /\ procs[child.pid].stdout = "piped"
             /\ child.pid \notin dropped
    /\ Done => (result.tag = "Chaining" <=> commands = <<>>)

C18_Witness ==
    /\ Done
    /\ Len(procs) = 2
    /\ procs[2].stdin = 1
    /\ child = NoChild
    /\ result.tag = "TerminationWithError"

\* C19: once the wait on the last stage has returned, the result is a
\* function of the status and the output collected from the last stage alone;
\* the status of the other stages, which may have failed, been killed or
\* still be running, is not part of it.
C19_IntermediateStatusIgnored ==
    Collected
        => /\ output.status = FinalProc.status
           /\ output.stdout = FinalProc.out
           /\ result = ResultOf(output)
           /\ \A k \in 1..(Len(procs) - 1) : k \in dropped

C19_Witness ==
    /\ Collected
    /\ Len(procs) = 2
    /\ procs[1].status = Signaled
    /\ FinalProc.status = Exited(0)
    /\ result = Ok(<<104, 105>>)

\* after the spawn of stage k > 1 has failed: no wait was issued, the
\* handles of stages 1..k-1 are dropped, and the read end of the stdout pipe
\* of stage k-1 is closed, not read
AbandonedOnFailure ==
    \A k \in FailedSpawns :
        k > 1
            => /\ Ops("wait") = {}
               /\ child = NoChild
               /\ dropped = 1..(k - 1)
               /\ Len(procs) = k - 1
               /\ pipes[k - 1].at = "closed"
               /\ \A j \in 1..(k - 2) : pipes[j].at = "stdin"

\* a step that changes a spawned process is not a step of the executor
ExecutorLeavesProcs ==
    \A k \in 1..Len(procs) :
        procs'[k] # procs[k]
            => UNCHANGED <<call, pc, commands, idx, child, pipes, dropped,
                           oplog, output, bytes, result>>

\* C20: when the spawn of stage k > 1 fails, the call returns with stages
\* 1..k-1 neither waited on nor killed: their handles are dropped whether or
\* not the processes still run, no step of the executor ever changes a
\* spawned process, and the read end of stage k-1's stdout pipe, taken for
\* stage k, is closed unread.
C20_SpawnedStagesAbandoned == []AbandonedOnFailure /\ [][ExecutorLeavesProcs]_vars

C20_Witness ==
    /\ Done
    /\ FailedSpawns = {2}
    /\ procs[1].status = Running
    /\ dropped = {1}
    /\ pipes[1].at = "closed"
    /\ Ops("wait") = {}

====
